---- MODULE Spec2Model ----
(***************************************************************************)
(* A model of the batched result cursor of ronaldslc/pgx:                  *)
(*   - pgproto3.ReceivedMessages, the circular queue of framed messages,   *)
(*   - pgproto3.Frontend.Receive, the framer that fills it from the        *)
(*     socket through the byte ring buffer,                                *)
(*   - pgx.Rows, the cursor (BatchNext/Next, Scan, Values, Close).         *)
(* Go's 0-based slices are TLA+ sequences: slot i of the code is element   *)
(* i + 1 of the sequence.  A byte is a number in 0..255; a backend         *)
(* message (a flyweight) is identified by its tag byte; a nil message is   *)
(* NilMsg and a nil body the empty sequence.                               *)
(***************************************************************************)
EXTENDS Integers, Sequences, FiniteSets, TLC

VARIABLES
    variant,    \* which copy of the pgproto3 source is linked: "frontend" | "part003"
    rmsgs,      \* conn.rmsgs: the ReceivedMessages record
    rb,         \* frontend.rb: the bytes held by the ring buffer, oldest first
    wire,       \* the bytes the server has sent and the socket has not yet handed over
    recv,       \* the locals of a running Frontend.Receive and its position
    rows,       \* the Rows cursor
    conn,       \* what the cursor touches of its Conn
    panicked,   \* "" or the run-time panic that stopped the program
    reply,      \* the list of messages the server sends for the query
    query,      \* what QueryEx returned to its caller: the *Rows (nil or not) and the error
    hq,         \* history of the queue operations (what the last call returned)
    hr,         \* history of Receive (what was framed, what it returned)
    hc          \* history of the cursor calls (rows scanned, values returned)

vars == <<variant, rmsgs, rb, wire, recv, rows, conn, panicked, reply, query, hq, hr, hc>>

-----------------------------------------------------------------------------
(* Bounds of the model *)

MaxCap == 2         \* largest capacity a ReceivedMessages is created with
MaxReadable == 3    \* cap on the readable counter (part_003's Forward lets it grow)
RbCap == 6          \* capacity of the byte ring buffer (8192 in the code)
MaxRows == 3        \* largest number of DataRows in a reply
MaxB == 2           \* largest row-buffer capacity len(rows.values)
MaxCols == 3        \* largest number of columns of a RowDescription
MaxCodes == 3       \* largest length of options.ResultFormatCodes

-----------------------------------------------------------------------------
(* Bytes and messages *)

NilMsg == 0

TagD == 68      \* 'D' DataRow
TagC == 67      \* 'C' CommandComplete
TagT == 84      \* 'T' RowDescription
TagN == 78      \* 'N' NoticeResponse
TagE == 69      \* 'E' ErrorResponse
Tag2 == 50      \* '2' BindComplete

Min(a, b) == IF a < b THEN a ELSE b

-----------------------------------------------------------------------------
(* pgproto3.ReceivedMessages *)

NewReceivedMessages(n) ==
    [msgs |-> [i \in 1..n |-> NilMsg], msgBodies |-> [i \in 1..n |-> <<>>],
     rp |-> 0, wp |-> 0, readable |-> 0]

Readable(r) == r.readable

RLen(r) == Len(r.msgs)

WriteCapacity(r) == Len(r.msgs) - Readable(r)

\* The result of a queue call: the queue after it, what it returned, and the
\* run-time panic it raised, if any.
QRes(r, msg, body, err, panic) ==
    [r |-> r, msg |-> msg, body |-> body, err |-> err, panic |-> panic]

\* Read as it would be if it returned the slot at the advanced read position.
ReadAfterAdvance(r) ==
    IF Readable(r) <= 0 THEN QRes(r, NilMsg, <<>>, "no message", "")
    ELSE LET r1 == [r EXCEPT !.rp = IF r.rp = RLen(r) - 1 THEN 0 ELSE r.rp + 1,
                             !.readable = r.readable - 1]
         IN  QRes(r1, r.msgs[r1.rp + 1], r.msgBodies[r1.rp + 1], "nil", "")

Read(r) ==
    IF Readable(r) <= 0 THEN QRes(r, NilMsg, <<>>, "no message", "")
    ELSE LET rp == r.rp
             r1 == [r EXCEPT !.rp = IF r.rp = RLen(r) - 1 THEN 0 ELSE r.rp + 1,
                             !.readable = r.readable - 1]
         IN  IF rp + 1 \in 1..RLen(r)
             THEN QRes(r1, r.msgs[rp + 1], r.msgBodies[rp + 1], "nil", "")
             ELSE QRes(r1, NilMsg, <<>>, "nil", "index out of range")

\* Kth(k): the pair at (rp + k) % Len(); nothing is moved
Kth(r, k) ==
    IF RLen(r) = 0 THEN QRes(r, NilMsg, <<>>, "nil", "integer divide by zero")
    ELSE LET rp == (r.rp + k) % RLen(r)
         IN  IF rp + 1 \in 1..RLen(r)
             THEN QRes(r, r.msgs[rp + 1], r.msgBodies[rp + 1], "nil", "")
             ELSE QRes(r, NilMsg, <<>>, "nil", "index out of range")

\* Write as it would be without the check of WriteCapacity.
WriteUnchecked(r, msg, msgBody) ==
    IF r.wp + 1 \notin 1..RLen(r)
    THEN QRes(r, NilMsg, <<>>, "nil", "index out of range")
    ELSE QRes([r EXCEPT !.msgs[r.wp + 1] = msg,
                        !.msgBodies[r.wp + 1] = msgBody,
                        !.wp = IF r.wp = RLen(r) - 1 THEN 0 ELSE r.wp + 1,
                        !.readable = r.readable + 1],
              NilMsg, <<>>, "nil", "")

Write(r, msg, msgBody) ==
    IF WriteCapacity(r) <= 0 THEN QRes(r, NilMsg, <<>>, "ErrShortWrite", "")
    ELSE IF r.wp + 1 \notin 1..RLen(r)
         THEN QRes(r, NilMsg, <<>>, "nil", "index out of range")
         ELSE QRes([r EXCEPT !.msgs[r.wp + 1] = msg,
                             !.msgBodies[r.wp + 1] = msgBody,
                             !.wp = IF r.wp = RLen(r) - 1 THEN 0 ELSE r.wp + 1,
                             !.readable = r.readable + 1],
                   NilMsg, <<>>, "nil", "")

\* Backward as it would be without the wrap of rp at 0.
BackwardNoWrap(r) ==
    IF WriteCapacity(r) <= 0 THEN r
    ELSE [r EXCEPT !.readable = r.readable + 1, !.rp = r.rp - 1]

Backward(r) ==
    IF WriteCapacity(r) <= 0 THEN r
    ELSE [r EXCEPT !.readable = r.readable + 1,
                   !.rp = IF r.rp = 0 THEN Len(r.msgs) - 1 ELSE r.rp - 1]

ForwardFrontend(r) ==
    IF Readable(r) <= 0 THEN r
    ELSE [r EXCEPT !.rp = IF r.rp = Len(r.msgs) - 1 THEN 0 ELSE r.rp + 1,
                   !.readable = r.readable - 1]

ForwardPart003(r) ==
    IF Readable(r) <= 0 THEN r
    ELSE [r EXCEPT !.rp = IF r.rp = Len(r.msgs) - 1 THEN 0 ELSE r.rp + 1,
                   !.readable = r.readable + 1]

Forward(v, r) == IF v = "part003" THEN ForwardPart003(r) ELSE ForwardFrontend(r)

\* SetCapacity fills the new arrays nmsgs and nmsgBodies and never stores them
\* in r: only rp, wp and readable change.  nmsgs[r.rp:] is out of range when
\* r.rp exceeds the new capacity; rp and readable are already updated then.
SetCapacity(r, capacity) ==
    IF RLen(r) = capacity THEN QRes(r, NilMsg, <<>>, "nil", "")
    ELSE LET r1 == IF Readable(r) > capacity
                   THEN [r EXCEPT !.rp = (r.rp + r.readable - capacity) % RLen(r),
                                  !.readable = capacity]
                   ELSE r
         IN  IF r1.rp > capacity
             THEN QRes(r1, NilMsg, <<>>, "nil", "slice bounds out of range")
             ELSE QRes([r1 EXCEPT !.rp = 0, !.wp = r1.readable], NilMsg, <<>>, "nil", "")

-----------------------------------------------------------------------------
(* The wire format: tag(1 byte) | length(u32 big endian, counts itself) | body *)

Uint32(b) == ((b[1] * 256 + b[2]) * 256 + b[3]) * 256 + b[4]

PutUint32(n) == <<(n \div 16777216) % 256, (n \div 65536) % 256, (n \div 256) % 256, n % 256>>

Msg(tag, body) == [tag |-> tag, body |-> body]

EncodeMsg(m) == <<m.tag>> \o PutUint32(Len(m.body) + 4) \o m.body

RECURSIVE EncodeAll(_)
EncodeAll(ms) == IF ms = <<>> THEN <<>> ELSE EncodeMsg(Head(ms)) \o EncodeAll(Tail(ms))

\* backendMsgFlyweights[tag]: the flyweight of the tag, nil for any other byte.
KnownTags == {49, 50, 51, 65, 67, 100, 68, 69, 71, 72, 73, 75, 110, 78, 82, 83, 116, 84, 86, 87, 90}

Flyweight(tag) == IF tag \in KnownTags THEN tag ELSE NilMsg

\* BodyLen as it would be if the length field did not count itself.
BodyLenWholeField(header) == Uint32(SubSeq(header, 2, 5))

BodyLen(header) == Uint32(SubSeq(header, 2, 5)) - 4

-----------------------------------------------------------------------------
(* The program state as one record, so that the handlers are operators on it *)

Cur == [variant |-> variant, rmsgs |-> rmsgs, rb |-> rb, wire |-> wire, recv |-> recv,
        rows |-> rows, conn |-> conn, panicked |-> panicked, query |-> query,
        hr |-> hr, hc |-> hc]

Install(s) ==
    /\ rmsgs' = s.rmsgs
    /\ rb' = s.rb
    /\ wire' = s.wire
    /\ recv' = s.recv
    /\ rows' = s.rows
    /\ conn' = s.conn
    /\ panicked' = s.panicked
    /\ query' = s.query
    /\ hr' = s.hr
    /\ hc' = s.hc

-----------------------------------------------------------------------------
(* pgproto3.Frontend.Receive.  The call is suspended at each b.rb.ReadFrom(b.r): *)
(* recv.pc is "outer" before the ReadFrom of the outer loop, "body" before the   *)
(* ReadFrom of the body loop, "idle" when no Receive is running.  recv.header    *)
(* holds the header bytes read so far, len(headerSlice) = 5 - Len(recv.header).  *)

RecvIdle == [pc |-> "idle", header |-> <<>>, msgBody |-> <<>>, bodyLen |-> 0, caller |-> "none"]

HrInit == [ret |-> "none", retReadable |-> 0, entryReadable |-> 0, framed |-> <<>>,
           failed |-> FALSE, lost |-> 0, splitHeader |-> FALSE, refill |-> FALSE]

\* The condition of the outer loop.
LoopCondFrontend(s) == Readable(s.rmsgs) <= 0 \/ Len(s.recv.header) > 0

LoopCondPart003(s) == Readable(s.rmsgs) <= 0

\* The loop condition as it would be with < for <=.
LoopCondStrict(s) == Readable(s.rmsgs) < 0 \/ Len(s.recv.header) > 0

LoopCond(s) == IF s.variant = "part003" THEN LoopCondPart003(s) ELSE LoopCondFrontend(s)

\* Receive returns err: its locals, with the bytes they hold, are gone.
ReceiveReturn(s, err) ==
    [s EXCEPT !.recv = [RecvIdle EXCEPT !.caller = s.recv.caller],
              !.hr.ret = err,
              !.hr.retReadable = Readable(s.rmsgs),
              !.hr.failed = @ \/ err # "nil",
              !.hr.lost = @ + Len(s.recv.header) + Len(s.recv.msgBody)]

OuterCheck(s) ==
    IF LoopCond(s) THEN [s EXCEPT !.recv.pc = "outer"] ELSE ReceiveReturn(s, "nil")

RECURSIVE InnerLoop(_), FinishMsg(_)

\* for b.rb.Avail() > 0 { ... }, entered at its condition
InnerLoop(s) ==
    IF Len(s.rb) <= 0 THEN OuterCheck(s)
    ELSE LET rn == Min(5 - Len(s.recv.header), Len(s.rb))
             s1 == [s EXCEPT !.recv.header = @ \o SubSeq(s.rb, 1, rn),
                             !.rb = SubSeq(s.rb, rn + 1, Len(s.rb)),
                             !.hr.splitHeader = @ \/ Len(s.recv.header) > 0]
         IN  IF Len(s1.recv.header) < 5 THEN OuterCheck(s1)
             ELSE IF BodyLen(s1.recv.header) > 0
                  THEN [s1 EXCEPT !.recv.pc = "body",
                                  !.recv.bodyLen = BodyLen(s1.recv.header),
                                  !.recv.msgBody = <<>>]
                  ELSE FinishMsg(s1)

\* The header and the body are complete: look the message up and write it.
FinishMsg(s) ==
    LET msg == Flyweight(s.recv.header[1])
        w == Write(s.rmsgs, msg, s.recv.msgBody)
        s1 == [s EXCEPT !.rmsgs = w.r,
                        !.hr.framed = Append(@, Msg(msg, s.recv.msgBody)),
                        !.recv.header = <<>>,
                        !.recv.msgBody = <<>>,
                        !.recv.bodyLen = 0]
    IN  IF msg = NilMsg THEN ReceiveReturn(s, "unknown message type")
        ELSE IF w.panic # "" THEN [s EXCEPT !.panicked = w.panic]
        ELSE IF w.err # "nil" THEN ReceiveReturn(s, w.err)
        ELSE IF WriteCapacity(s1.rmsgs) <= 0 THEN ReceiveReturn(s1, "nil")
        ELSE InnerLoop(s1)

\* After the ReadFrom of the body loop: read what the ring holds into the body.
BodyStep(s) ==
    IF Len(s.rb) > 0
    THEN LET rn == Min(s.recv.bodyLen - Len(s.recv.msgBody), Len(s.rb))
             s1 == [s EXCEPT !.recv.msgBody = @ \o SubSeq(s.rb, 1, rn),
                             !.rb = SubSeq(s.rb, rn + 1, Len(s.rb))]
         IN  IF Len(s1.recv.msgBody) < s1.recv.bodyLen THEN s1 ELSE FinishMsg(s1)
    ELSE s

\* b.rb.ReadFrom(b.r): the socket hands k bytes over to the ring buffer.
ReadFrom(s, k) ==
    [s EXCEPT !.rb = @ \o SubSeq(s.wire, 1, k),
              !.wire = SubSeq(s.wire, k + 1, Len(s.wire)),
              !.hr.refill = @ \/ (k > 0 /\ Len(s.rb) + k = RbCap)]

\* Entry of Receive up to its first ReadFrom (or its return).
ReceiveEnter(s, caller) ==
    OuterCheck([s EXCEPT !.recv = [RecvIdle EXCEPT !.caller = caller],
                         !.hr.entryReadable = Readable(s.rmsgs),
                         !.hr.ret = "none"])

\* The same if Receive went back to ReadFrom whenever one brought no byte,
\* without looking at the ring buffer.
ReceiveIOWaitsForBytes(s, k, err) ==
    IF err # "nil" THEN ReceiveReturn(ReadFrom(s, k), err)
    ELSE IF k = 0 THEN s
    ELSE IF s.recv.pc = "outer" THEN InnerLoop(ReadFrom(s, k))
    ELSE BodyStep(ReadFrom(s, k))

\* One ReadFrom, which moved k bytes and returned err, and the code that
\* follows it up to the next ReadFrom (or the return).
ReceiveIO(s, k, err) ==
    IF err # "nil" THEN ReceiveReturn(ReadFrom(s, k), err)
    ELSE IF s.recv.pc = "outer" THEN InnerLoop(ReadFrom(s, k))
    ELSE BodyStep(ReadFrom(s, k))

-----------------------------------------------------------------------------
(* pgx.Rows and the part of Conn it uses *)

KnownOIDs == {23}   \* the OIDs ConnInfo.DataTypeForOID knows (int4)

TextFormatCode == 0

Field(oid) == [DataType |-> oid, FormatCode |-> TextFormatCode]

\* getRows: a zeroed Rows of the free list with values = make([][][]byte, bufferSize);
\* fields and unlockConn are as QueryEx leaves them on the prepared-statement path.
NewRows(bufferSize, fields) ==
    [closed |-> FALSE, err |-> "nil", pendingRowCount |-> 0, rowIdx |-> 0, columnIdx |-> 0,
     values |-> [i \in 1..bufferSize |-> <<>>], fields |-> fields, rowCount |-> 0,
     unlockConn |-> TRUE, connPool |-> FALSE, batch |-> FALSE]

\* The connection of a cursor in use: locked, its query written to the socket
\* (written counts the buffers conn.Write sent whole, partial says that a failed
\* Write left bytes on the socket) and one ReadyForQuery outstanding.
ConnBusy == [alive |-> TRUE, status |-> "busy", unlocks |-> 0, log |-> <<>>,
             releases |-> 0, batchDead |-> FALSE,
             written |-> 1, partial |-> FALSE, pendingReadyForQueryCount |-> 1]

\* an element of c.preallocatedRows
ZeroRows == [NewRows(0, <<>>) EXCEPT !.unlockConn = FALSE]

\* QueryExOptions and args of a call: ParameterOIDs and args are the lengths of
\* the two slices.
NoOptions == [SimpleProtocol |-> FALSE, ParameterOIDs |-> 0, ResultFormatCodes |-> <<>>,
              args |-> 0]

\* no second QueryEx on the connection
NoSecond == [state |-> "none", rows |-> "nil", err |-> "nil", cursor |-> ZeroRows,
             closes |-> 0]

\* QueryEx has returned a cursor and no error
QueryDone == [state |-> "returned", rows |-> "rows", err |-> "nil", opt |-> NoOptions,
              row |-> "none", dest |-> <<>>, second |-> NoSecond]

HcInit == [rets |-> <<>>, scanned |-> <<>>, ok |-> TRUE,
           call |-> [op |-> "none", closed |-> FALSE, rowIdx |-> 0, pendingRowCount |-> 0,
                     columnIdx |-> 0, err |-> "nil"],
           last |-> [op |-> "none", ret |-> "none", n |-> 0], via |-> ""]

\* conn.unlock(): the connection is idle again.
Unlock(c) == [c EXCEPT !.status = "idle", !.unlocks = @ + 1]

\* conn.die(err)
Die(s, err) == [s EXCEPT !.conn.alive = FALSE]

\* conn.termContext(err) with no context in progress
TermContext(err) == err

\* RowsClose as it would be without the check of rows.closed.
RowsCloseUnguarded(s) ==
    LET c1 == IF s.rows.unlockConn THEN Unlock(s.conn) ELSE s.conn
        err == TermContext(s.rows.err)
        ev == IF err = "nil"
              THEN [level |-> "info", rowCount |-> s.rows.rowCount]
              ELSE [level |-> "error", rowCount |-> -1]
    IN  [s EXCEPT !.rows.unlockConn = FALSE,
                  !.rows.closed = TRUE,
                  !.rows.err = err,
                  !.conn = [c1 EXCEPT
                               !.log = Append(@, ev),
                               !.batchDead = @ \/ (s.rows.batch /\ err # "nil"),
                               !.releases = IF s.rows.connPool THEN @ + 1 ELSE @]]

RowsClose(s) ==
    IF s.rows.closed THEN s
    ELSE LET c1 == IF s.rows.unlockConn THEN Unlock(s.conn) ELSE s.conn
             err == TermContext(s.rows.err)
             ev == IF err = "nil"
                   THEN [level |-> "info", rowCount |-> s.rows.rowCount]
                   ELSE [level |-> "error", rowCount |-> -1]
         IN  [s EXCEPT !.rows.unlockConn = FALSE,
                       !.rows.closed = TRUE,
                       !.rows.err = err,
                       !.conn = [c1 EXCEPT
                                    !.log = Append(@, ev),
                                    !.batchDead = @ \/ (s.rows.batch /\ err # "nil"),
                                    !.releases = IF s.rows.connPool THEN @ + 1 ELSE @]]

\* Fatal as it would be if it recorded the error and left the cursor open.
FatalNoClose(s, err) ==
    IF s.rows.err # "nil" THEN s ELSE [s EXCEPT !.rows.err = err]

Fatal(s, err) ==
    IF s.rows.err # "nil" THEN s ELSE RowsClose([s EXCEPT !.rows.err = err])

\* msg.Decode(msgBody).  In the model a DataRow body is <<n, v1, .., vn>> and a
\* RowDescription body <<n, oid1, .., oidn>>; every other body decodes.
DecodeOK(msg, body) ==
    IF msg \in {TagD, TagT} THEN Len(body) >= 1 /\ Len(body) = 1 + body[1] ELSE TRUE

DataRowValues(body) == Tail(body)

\* conn.rxRowDescription(msg)
RxRowDescription(body) == [i \in 1..(Len(body) - 1) |-> Field(body[i + 1])]

\* conn.processContextFreeMsg(msg): the error of an ErrorResponse, nil otherwise
ProcessContextFreeMsg(msg) == IF msg = TagE THEN "ErrorResponse" ELSE "nil"

\* what made the running BatchNext return, for the cases the properties name
Via(s, w) == [s EXCEPT !.hc.via = w]

\* BatchNext returns n to its caller.
Ret(s, n) ==
    [s EXCEPT !.hc.last = [op |-> "BatchNext", ret |-> "returned", n |-> n],
              !.hc.rets = IF s.hc.ok /\ ~s.hc.call.closed THEN Append(@, n) ELSE @]

\* StoreRow as it would be if it indexed the row buffer by rowIdx.
StoreRowAtRowIdx(rws, vals) == [rws EXCEPT !.values[rws.rowIdx + 1] = vals]

\* rows.values[rows.pendingRowCount] = a deep copy of msg.Values
StoreRow(rws, vals) == [rws EXCEPT !.values[rws.pendingRowCount + 1] = vals]

\* BatchFull as it would be with > for >=.
BatchFullStrict(rws) == rws.pendingRowCount > Len(rws.values)

\* the batch is full: break outer
BatchFull(rws) == rws.pendingRowCount >= Len(rws.values)

\* NothingBuffered as it would be if BatchNext never called itself again.
NothingBufferedIgnored(rws) == FALSE

\* line 219: nothing buffered after batchRead, call BatchNext again
NothingBuffered(rws) == rws.pendingRowCount = 0

\* OnCommandComplete as it would be if it left the cursor open.
OnCommandCompleteLeftOpen(s) == [s EXCEPT !.rows.rowCount = @ + 1]

\* case *pgproto3.CommandComplete: rows.rowCount++; rows.Close()
OnCommandComplete(s) == RowsClose([s EXCEPT !.rows.rowCount = @ + 1])

\* IsTimeout as it would be if every error counted as a timeout.
IsTimeoutAlways(err) == TRUE

\* netErr, ok := err.(net.Error); ok && netErr.Timeout()
IsTimeout(err) == err = "timeout"

\* HasUnscanned as it would be if BatchNext always fetched a new batch.
HasUnscannedNever(rws) == FALSE

\* line 144: rows of the current batch are still to be scanned
HasUnscanned(rws) == rws.pendingRowCount > rws.rowIdx

RECURSIVE BatchNextBody(_), DrainLoop(_, _), BatchRead(_), AfterBatchRead(_, _)

\* The for loop over the messages readable at its start, idx to go.
DrainLoop(s, idx) ==
    IF idx <= 0 THEN BatchRead(s)
    ELSE
    LET rd == Read(s.rmsgs)
        s1 == [s EXCEPT !.rmsgs = rd.r]
    IN  IF rd.panic # "" THEN [s1 EXCEPT !.panicked = rd.panic]
        ELSE IF rd.err # "nil" THEN Ret(Fatal(s1, rd.err), 0)
        ELSE IF rd.msg = TagC /\ s1.rows.pendingRowCount > 0
             THEN Ret([s1 EXCEPT !.rmsgs = Backward(s1.rmsgs)], s1.rows.pendingRowCount)
        ELSE IF ~DecodeOK(rd.msg, rd.body) THEN Ret(Fatal(s1, "decode error"), 0)
        ELSE IF rd.msg = TagT THEN
             LET fs == RxRowDescription(rd.body)
                 s2 == [s1 EXCEPT !.rows.fields = fs]
             IN  IF \E i \in 1..Len(fs) : fs[i].DataType \notin KnownOIDs
                 THEN Ret(Fatal(s2, "unknown oid"), 0)
                 ELSE DrainLoop(s2, idx - 1)
        ELSE IF rd.msg = TagD THEN
             LET vals == DataRowValues(rd.body)
             IN  IF Len(vals) # Len(s1.rows.fields)
                 THEN Ret(Fatal(Via(s1, "fieldCount"), "ProtocolError: field count"), 0)
                 ELSE IF s1.rows.pendingRowCount + 1 \notin 1..Len(s1.rows.values)
                 THEN [s1 EXCEPT !.panicked = "BatchNext: values index out of range"]
                 ELSE LET rw == StoreRow(s1.rows, vals)
                          s2 == [s1 EXCEPT !.rows = [rw EXCEPT !.rowCount = @ + 1,
                                                              !.pendingRowCount = @ + 1]]
                      IN  IF BatchFull(s2.rows) THEN BatchRead(s2)
                          ELSE DrainLoop(s2, idx - 1)
        ELSE IF rd.msg = TagC
             THEN Ret(OnCommandComplete(Via(s1, "CommandComplete")), 0)
        ELSE IF ProcessContextFreeMsg(rd.msg) # "nil"
             THEN Ret(Fatal(s1, ProcessContextFreeMsg(rd.msg)), 0)
        ELSE DrainLoop(s1, idx - 1)

\* rows.batchRead() called by BatchNext, up to the first ReadFrom of Receive.
BatchRead(s) ==
    IF s.rows.closed THEN AfterBatchRead(s, "nil")
    ELSE LET s1 == ReceiveEnter(s, "batchRead")
         IN  IF s1.recv.pc = "idle" THEN AfterBatchRead(s1, s1.hr.ret) ELSE s1

\* Receive returned err to batchRead, and batchRead to BatchNext.
AfterBatchRead(s, err) ==
    IF err # "nil"
    THEN Ret(Fatal(Via(IF IsTimeout(err) THEN s ELSE Die(s, err), "Receive"), err), 0)
    ELSE IF NothingBuffered(s.rows) THEN BatchNextBody(s)
    ELSE Ret(s, s.rows.pendingRowCount)

BatchNextBody(s) ==
    IF s.rows.closed THEN Ret(s, 0)
    ELSE IF HasUnscanned(s.rows)
         THEN Ret(s, s.rows.pendingRowCount - s.rows.rowIdx)
    ELSE DrainLoop([s EXCEPT !.rows.columnIdx = 0, !.rows.rowIdx = 0,
                             !.rows.pendingRowCount = 0],
                   Readable(s.rmsgs))

\* A call of BatchNext by the user of the cursor.
BatchNextCall(s) ==
    BatchNextBody([s EXCEPT
        !.hc.call = [op |-> "BatchNext", closed |-> s.rows.closed,
                     rowIdx |-> s.rows.rowIdx, pendingRowCount |-> s.rows.pendingRowCount,
                     columnIdx |-> s.rows.columnIdx, err |-> s.rows.err],
        !.hc.last = [op |-> "BatchNext", ret |-> "running", n |-> 0],
        !.hc.via = "",
        !.hc.ok = @ /\ (s.rows.closed \/ s.rows.pendingRowCount = s.rows.rowIdx),
        !.hc.rets = IF s.hc.ok /\ (s.rows.closed \/ s.rows.pendingRowCount = s.rows.rowIdx)
                    THEN @ ELSE <<>>,
        !.hc.scanned = IF s.hc.ok /\ (s.rows.closed \/ s.rows.pendingRowCount = s.rows.rowIdx)
                       THEN @ ELSE <<>>])

\* rows.nextColumn(): ok is its third result, a nil fd goes with ok = FALSE.
NextColumn(s) ==
    IF s.rows.closed THEN [s |-> s, ok |-> FALSE, panic |-> ""]
    ELSE IF Len(s.rows.fields) <= s.rows.columnIdx
         THEN [s |-> Fatal(s, "ProtocolError: No next column available"),
               ok |-> FALSE, panic |-> ""]
    ELSE IF s.rows.rowIdx + 1 \notin 1..Len(s.rows.values)
         THEN [s |-> s, ok |-> FALSE, panic |-> "index out of range"]
    ELSE IF s.rows.columnIdx + 1 \notin 1..Len(s.rows.values[s.rows.rowIdx + 1])
         THEN [s |-> s, ok |-> FALSE, panic |-> "index out of range"]
    ELSE [s |-> [s EXCEPT !.rows.columnIdx = @ + 1], ok |-> TRUE, panic |-> ""]

\* ScanAdvance as it would be if Scan forgot to advance.
ScanAdvanceForgotten(rws) == rws

\* rows.rowIdx++ at the end of Scan
ScanAdvance(rws) == [rws EXCEPT !.rowIdx = @ + 1]

\* The loop of Scan over dest from its i-th element, and what Scan returns.  A
\* destination is "nil", "ok" (its decoder accepts the column) or "bad" (it fails).
RECURSIVE ScanCols(_, _, _)
ScanCols(s, dest, i) ==
    IF i > Len(dest) THEN [s |-> [s EXCEPT !.rows = ScanAdvance(s.rows)], ret |-> "nil"]
    ELSE
    LET nc == NextColumn(s)
    IN  IF nc.panic # "" THEN [s |-> [s EXCEPT !.panicked = nc.panic], ret |-> "panic"]
        ELSE IF dest[i] = "nil" THEN ScanCols(nc.s, dest, i + 1)
        ELSE IF ~nc.ok
             THEN [s |-> [nc.s EXCEPT !.panicked = "nil pointer dereference"], ret |-> "panic"]
        ELSE LET s2 == IF dest[i] = "bad" THEN Fatal(nc.s, "scanArgError") ELSE nc.s
             IN  IF s2.rows.err # "nil" THEN [s |-> s2, ret |-> s2.rows.err]
                 ELSE ScanCols(s2, dest, i + 1)

\* Scan as it would be if the argument-count error still moved on to the next row.
ScanCountErrorAdvances(s, dest) ==
    IF Len(s.rows.fields) # Len(dest)
    THEN [s |-> Fatal([s EXCEPT !.rows.rowIdx = @ + 1],
                      "Scan received wrong number of arguments"),
          ret |-> "Scan received wrong number of arguments"]
    ELSE IF s.rows.rowIdx >= s.rows.pendingRowCount
    THEN [s |-> Fatal(s, "no row data"), ret |-> "no row data"]
    ELSE ScanCols([s EXCEPT !.rows.columnIdx = 0], dest, 1)

Scan(s, dest) ==
    IF Len(s.rows.fields) # Len(dest)
    THEN [s |-> Fatal(s, "Scan received wrong number of arguments"),
          ret |-> "Scan received wrong number of arguments"]
    ELSE IF s.rows.rowIdx >= s.rows.pendingRowCount
    THEN [s |-> Fatal(s, "no row data"), ret |-> "no row data"]
    ELSE ScanCols([s EXCEPT !.rows.columnIdx = 0], dest, 1)

\* A call of Scan by the user of the cursor; the row a successful Scan read is
\* rows.values[rowIdx] as it was at the call.
ScanCall(s, dest) ==
    LET r == Scan(s, dest)
        row == IF s.rows.rowIdx + 1 \in 1..Len(s.rows.values)
               THEN s.rows.values[s.rows.rowIdx + 1] ELSE <<>>
        good == s.hc.ok /\ r.ret = "nil" /\ ~s.rows.closed
    IN  [r.s EXCEPT
            !.hc.call = [op |-> "Scan", closed |-> s.rows.closed,
                         rowIdx |-> s.rows.rowIdx, pendingRowCount |-> s.rows.pendingRowCount,
                     columnIdx |-> s.rows.columnIdx, err |-> s.rows.err],
            !.hc.last = [op |-> "Scan", ret |-> r.ret, n |-> 0],
            !.hc.via = "",
            !.hc.scanned = IF good THEN Append(@, row) ELSE <<>>,
            !.hc.rets = IF good THEN @ ELSE <<>>,
            !.hc.ok = good]

\* The loop of Values over the fields from the j-th; bad is the column whose
\* decoder fails (0: none).
RECURSIVE ValuesCols(_, _, _)
ValuesCols(s, bad, j) ==
    IF j > Len(s.rows.fields)
    THEN [s |-> [s EXCEPT !.rows.rowIdx = @ + 1], ret |-> s.rows.err]
    ELSE
    LET nc == NextColumn(s)
    IN  IF nc.panic # "" THEN [s |-> [s EXCEPT !.panicked = nc.panic], ret |-> "panic"]
        ELSE IF ~nc.ok THEN ValuesCols(nc.s, bad, j + 1)
        ELSE LET s2 == IF bad = j THEN Fatal(nc.s, "decode error") ELSE nc.s
             IN  IF s2.rows.err # "nil" THEN [s |-> s2, ret |-> s2.rows.err]
                 ELSE ValuesCols(s2, bad, j + 1)

Values(s, bad) ==
    IF s.rows.closed THEN [s |-> s, ret |-> "rows is closed"]
    ELSE ValuesCols([s EXCEPT !.rows.columnIdx = 0], bad, 1)

ValuesCall(s, bad) ==
    LET r == Values(s, bad)
    IN  [r.s EXCEPT
            !.hc.call = [op |-> "Values", closed |-> s.rows.closed,
                         rowIdx |-> s.rows.rowIdx, pendingRowCount |-> s.rows.pendingRowCount,
                     columnIdx |-> s.rows.columnIdx, err |-> s.rows.err],
            !.hc.last = [op |-> "Values", ret |-> r.ret, n |-> 0],
            !.hc.via = "",
            !.hc.rets = <<>>,
            !.hc.scanned = <<>>,
            !.hc.ok = FALSE]

CloseCall(s) ==
    [RowsClose(s) EXCEPT
        !.hc.call = [op |-> "Close", closed |-> s.rows.closed,
                     rowIdx |-> s.rows.rowIdx, pendingRowCount |-> s.rows.pendingRowCount,
                     columnIdx |-> s.rows.columnIdx, err |-> s.rows.err],
        !.hc.last = [op |-> "Close", ret |-> "none", n |-> 0],
        !.hc.via = "",
        !.hc.rets = IF s.hc.ok /\ s.rows.closed THEN @ ELSE <<>>,
        !.hc.scanned = IF s.hc.ok /\ s.rows.closed THEN @ ELSE <<>>,
        !.hc.ok = @ /\ s.rows.closed]

-----------------------------------------------------------------------------
(* Conn.QueryEx.  What the functions it calls do outside this file is an input:  *)
(* fail names the first of them that returns an error ("none": no one does), and *)
(* path the branch taken: "simple", "oneRoundTrip" or "prepared".                *)

DefaultBufferSize == 100

QueryPaths == {"simple", "oneRoundTrip", "prepared"}

\* the branch QueryEx takes (lines 493 and 503)
Path(opt) == IF opt.SimpleProtocol THEN "simple"
             ELSE IF opt.ParameterOIDs > 0 THEN "oneRoundTrip"
             ELSE "prepared"

\* the calls that can fail on each path, in the order QueryEx makes them;
\* "Write" is a conn.Write that fails after it sent bytes, "WriteTimeout" one
\* that times out with nothing sent
FailPoints(path) ==
    {"none", "waitForPreviousCancelQuery", "ensureConnectionReadyForQuery", "lock", "initContext"}
    \cup (IF path = "simple" THEN {"sanitizeAndSendSimpleQuery"}
          ELSE IF path = "oneRoundTrip"
               THEN {"appendBind", "Write", "WriteTimeout", "readUntilRowDescription"}
               ELSE {"prepareEx", "sendPreparedQuery"})

ConnIdle == [ConnBusy EXCEPT !.status = "idle", !.written = 0,
                             !.pendingReadyForQueryCount = 0]

QueryNone == [QueryDone EXCEPT !.state = "none", !.rows = "nil"]

\* c.getRows(bufferSize, sql, args)
GetRows(s, bufferSize) ==
    LET size == IF bufferSize <= 0 THEN DefaultBufferSize ELSE bufferSize
        sc == IF RLen(s.rmsgs) < size THEN SetCapacity(s.rmsgs, size)
              ELSE QRes(s.rmsgs, NilMsg, <<>>, "nil", "")
    IN  [s EXCEPT !.rows = [ZeroRows EXCEPT !.values = [i \in 1..size |-> <<>>]],
                  !.rmsgs = sc.r,
                  !.panicked = sc.panic]

\* QueryEx returns (rows, err); rowsNil says that the *Rows it returns is nil.
QueryReturn(s, rowsNil, err) ==
    [s EXCEPT !.query.state = "returned",
              !.query.rows = IF rowsNil THEN "nil" ELSE "rows",
              !.query.err = err]

\* c.lock(): the error it returns; fail = "lock" stands for a connection that is
\* not idle for a reason outside the model (closed, not yet initialized)
Lock(s, fail) ==
    IF fail = "lock" THEN "lock"
    ELSE IF s.conn.status # "idle" THEN "conn is busy"
    ELSE "nil"

\* LockFailed as it would be if the rejected cursor were marked as holding the lock.
LockFailedUnlocks(s, err) ==
    QueryReturn(Fatal([s EXCEPT !.rows.unlockConn = TRUE], err), FALSE, err)

\* lines 481-484: rows.fatal(err); return rows, err
LockFailed(s, err) == QueryReturn(Fatal(s, err), FALSE, err)

\* the query has reached the server: the bytes it answers with are on their way,
\* and the ReadyForQuery of the query is outstanding
Sent(s, sent) ==
    [s EXCEPT !.wire = sent,
              !.conn.written = @ + 1,
              !.conn.pendingReadyForQueryCount = @ + 1]

MaxParameterOIDs == 65535

\* c.buildOneRoundTripQueryEx(c.wbuf, sql, options, args): the error it returns
BuildOneRoundTripQueryEx(opt, fail) ==
    IF opt.args # opt.ParameterOIDs THEN "mismatched number of arguments"
    ELSE IF opt.ParameterOIDs > MaxParameterOIDs THEN "too many ParameterOIDs"
    ELSE IF fail = "appendBind" THEN "appendBind"
    ELSE "nil"

\* BuildFailed as it would be if the cursor were returned without rows.fatal(err).
BuildFailedNoFatal(s, err) == QueryReturn(s, FALSE, err)

\* lines 506-509: rows.fatal(err); return rows, err
BuildFailed(s, err) == QueryReturn(Fatal(s, err), FALSE, err)

\* n, err := c.conn.Write(buf), for a buffer of more than one byte
ConnWrite(fail) ==
    IF fail = "Write" THEN [n |-> 1, err |-> "Write"]
    ELSE IF fail = "WriteTimeout" THEN [n |-> 0, err |-> "timeout"]
    ELSE [n |-> 2, err |-> "nil"]

\* fatalWriteErr(bytesWritten, err)
FatalWriteErr(n, err) == n > 0 \/ ~IsTimeout(err)

BinaryFormatCode == 1

\* lines 527-541: the format codes of the field descriptions read from the
\* RowDescription; with more codes than fields, fieldDescriptions[i] at line 538
\* is out of range
ApplyResultFormatCodes(fds, codes) ==
    IF Len(codes) = 0
    THEN [fds |-> [i \in 1..Len(fds) |-> [fds[i] EXCEPT !.FormatCode = TextFormatCode]],
          panic |-> ""]
    ELSE IF Len(codes) = 1
    THEN [fds |-> [i \in 1..Len(fds) |-> [fds[i] EXCEPT !.FormatCode = codes[1]]],
          panic |-> ""]
    ELSE IF Len(codes) > Len(fds)
    THEN [fds |-> [i \in 1..Len(fds) |-> [fds[i] EXCEPT !.FormatCode = codes[i]]],
          panic |-> "index out of range"]
    ELSE [fds |-> [i \in 1..Len(fds) |->
                     IF i <= Len(codes) THEN [fds[i] EXCEPT !.FormatCode = codes[i]]
                     ELSE fds[i]],
          panic |-> ""]

\* lines 503-547: the branch of QueryEx for options.ParameterOIDs
OneRoundTrip(s, fail, fields, sent) ==
    LET berr == BuildOneRoundTripQueryEx(s.query.opt, fail)
        w == ConnWrite(fail)
        s2 == IF w.err = "nil" THEN [s EXCEPT !.wire = sent, !.conn.written = @ + 1]
              ELSE [s EXCEPT !.conn.partial = w.n > 0]
        s3 == [s2 EXCEPT !.conn.pendingReadyForQueryCount = @ + 1]
        a == ApplyResultFormatCodes(fields, s.query.opt.ResultFormatCodes)
    IN  IF berr # "nil" THEN BuildFailed(s, berr)
        ELSE IF w.err # "nil" /\ FatalWriteErr(w.n, w.err)
        THEN QueryReturn(Die(Fatal(s2, w.err), w.err), TRUE, w.err)
        ELSE IF fail = "readUntilRowDescription" \/ w.err # "nil"
        THEN QueryReturn(Fatal(s3, "readUntilRowDescription"), TRUE, "readUntilRowDescription")
        ELSE IF a.panic # "" THEN [s3 EXCEPT !.panicked = a.panic]
        ELSE QueryReturn([s3 EXCEPT !.rows.fields = a.fds], FALSE, "nil")

\* QueryEx from c.lock() on
QueryLocked(s, fail, fields, sent) ==
    IF Lock(s, fail) # "nil" THEN LockFailed(s, Lock(s, fail))
    ELSE
    LET s1 == [s EXCEPT !.rows.unlockConn = TRUE, !.conn.status = "busy"]
        path == Path(s.query.opt)
    IN  IF fail = "initContext"
        THEN LET f == Fatal(s1, fail) IN QueryReturn(f, FALSE, f.rows.err)
        ELSE IF path = "simple"
        THEN IF fail = "sanitizeAndSendSimpleQuery"
             THEN QueryReturn(Fatal(s1, fail), FALSE, fail)
             ELSE QueryReturn(Sent(s1, sent), FALSE, "nil")
        ELSE IF path = "oneRoundTrip"
        THEN OneRoundTrip(s1, fail, fields, sent)
        ELSE IF fail = "prepareEx"
             THEN LET f == Fatal(s1, fail) IN QueryReturn(f, FALSE, f.rows.err)
             ELSE LET s2 == [s1 EXCEPT !.rows.fields = fields]
                      f == IF fail = "sendPreparedQuery" THEN Fatal(s2, fail)
                           ELSE Sent(s2, sent)
                  IN  QueryReturn(f, FALSE, f.rows.err)

\* c.QueryEx(ctx, maxRowCount, sql, options, args...): opt holds options and the
\* number of args, fields are the field descriptions of the statement and sent
\* the bytes the server answers with once the query has reached it.
QueryEx(s, maxRowCount, opt, fail, fields, sent) ==
    LET s0 == [s EXCEPT !.query.opt = opt]
    IN  IF fail \in {"waitForPreviousCancelQuery", "ensureConnectionReadyForQuery"}
        THEN QueryReturn(s0, TRUE, fail)
        ELSE LET g == GetRows(s0, maxRowCount)
             IN  IF g.panicked # "" THEN g ELSE QueryLocked(g, fail, fields, sent)

\* a method called on the nil *Rows that QueryEx returned
NilRows(s) == [s EXCEPT !.panicked = "nil pointer dereference"]

\* c.Query(sql, args...): no options, the default buffer size
Query(s, fail, fields, sent) ==
    QueryEx(s, 0, [NoOptions EXCEPT !.args = 1], fail, fields, sent)

\* c.QueryRow(sql, args...): the error of Query is dropped, the *Rows is the *Row
QueryRow(s, fail, fields, sent) == Query(s, fail, fields, sent)

\* c.QueryRowEx(ctx, sql, options, args...): a row buffer of one row
QueryRowEx(s, opt, fail, fields, sent) == QueryEx(s, 1, opt, fail, fields, sent)

\* Row.Scan returns err to its caller.
RowReturn(s, err) ==
    [s EXCEPT !.query.row = "returned",
              !.hc.last = [op |-> "Row.Scan", ret |-> err, n |-> 0]]

\* RowScanAfterNext as it would be without rows.Close() after rows.Scan.
RowScanNoClose(s) ==
    IF s.panicked # "" \/ s.hc.last.ret # "returned" THEN s
    ELSE IF ~(s.hc.last.n > 0)
    THEN RowReturn(s, IF s.rows.err = "nil" THEN "ErrNoRows" ELSE s.rows.err)
    ELSE LET sc == ScanCall(s, s.query.dest)
         IN  IF sc.panicked # "" THEN sc ELSE RowReturn(sc, sc.rows.err)

\* Row.Scan from the return of rows.Next() on (lines 30-39); while BatchNext is
\* suspended in Receive there is nothing to do yet.
RowScanAfterNext(s) ==
    IF s.panicked # "" \/ s.hc.last.ret # "returned" THEN s
    ELSE IF ~(s.hc.last.n > 0)
    THEN RowReturn(s, IF s.rows.err = "nil" THEN "ErrNoRows" ELSE s.rows.err)
    ELSE LET sc == ScanCall(s, s.query.dest)
             c == RowsClose(sc)
         IN  IF sc.panicked # "" THEN sc ELSE RowReturn(c, c.rows.err)

\* (*Row).Scan(dest...)
RowScanCall(s, dest) ==
    IF s.query.rows = "nil" THEN NilRows(s)
    ELSE IF s.rows.err # "nil" THEN RowReturn(s, s.rows.err)
    ELSE RowScanAfterNext(BatchNextCall([s EXCEPT !.query.row = "running",
                                                  !.query.dest = dest]))

\* A second QueryEx on the connection of the cursor s.rows.  getRows hands out
\* another element of c.preallocatedRows, so the first cursor is untouched;
\* the connection and its received-message buffer are shared.  What the call
\* returned is kept in query.second, its cursor in query.second.cursor.
SecondQueryEx(s, maxRowCount, opt, fail, fields, sent) ==
    LET r == QueryEx(s, maxRowCount, opt, fail, fields, sent)
    IN  [r EXCEPT !.rows = s.rows,
                  !.query = [s.query EXCEPT
                      !.second = [state |-> IF r.panicked = "" THEN "returned" ELSE "none",
                                  rows |-> r.query.rows,
                                  err |-> r.query.err,
                                  cursor |-> IF r.query.rows = "nil" THEN ZeroRows ELSE r.rows,
                                  closes |-> 0]]]

\* Close() on the cursor the second QueryEx returned
SecondRowsClose(s) ==
    LET r == RowsClose([s EXCEPT !.rows = s.query.second.cursor])
    IN  [r EXCEPT !.rows = s.rows,
                  !.query.second.cursor = r.rows,
                  !.query.second.closes = @ + 1]

\* ConnPool.Query: the pool marks the cursor it hands out
ConnPoolQuery(s, pool) ==
    IF pool /\ s.query.err = "nil" /\ s.query.rows = "rows" /\ s.panicked = ""
    THEN [s EXCEPT !.rows.connPool = TRUE] ELSE s

-----------------------------------------------------------------------------
(* The queue on its own: any sequence of Write, Read, Backward, Forward and      *)
(* SetCapacity calls.  hq.unread lists the pairs stored by successful Writes     *)
(* that no successful Read has returned yet, oldest first, for as long as only   *)
(* Write and Read have been called (hq.pure).  hq.phase follows the sequence     *)
(* Read (1), Backward (2), Read (3); hq.snap is the queue before the first Read. *)

Variants == {"frontend", "part003"}

QMsgs == {<<TagD, <<1>>>>, <<TagC, <<>>>>}

NoPair == <<-1, <<>>>>

HqInit == [pure |-> TRUE, unread |-> <<>>, op |-> "none", ok |-> FALSE,
           ret |-> NoPair, expect |-> NoPair, phase |-> 0,
           snap |-> [rp |-> 0, readable |-> 0, ret |-> NoPair],
           wpWrapped |-> FALSE, rpWrapped |-> FALSE,
           sc |-> [n |-> 0, len |-> 0, sane |-> FALSE, kept |-> <<>>]]

\* the readable messages of r, oldest first
ReadableList(r) ==
    [i \in 1..r.readable |->
        <<r.msgs[((r.rp + i - 1) % RLen(r)) + 1], r.msgBodies[((r.rp + i - 1) % RLen(r)) + 1]>>]

\* the newest k elements of q
Newest(q, k) == SubSeq(q, Len(q) - k + 1, Len(q))

\* what successive Reads return until one fails
RECURSIVE DrainReads(_)
DrainReads(r) ==
    LET rd == Read(r)
    IN  IF rd.err # "nil" \/ rd.panic # "" THEN <<>>
        ELSE <<<<rd.msg, rd.body>>>> \o DrainReads(rd.r)

InitIdle ==
    /\ rb = <<>>
    /\ wire = <<>>
    /\ reply = <<>>
    /\ recv = RecvIdle
    /\ rows = NewRows(1, <<>>)
    /\ conn = ConnBusy
    /\ panicked = ""
    /\ query = QueryDone
    /\ hq = HqInit
    /\ hr = HrInit
    /\ hc = HcInit

QueueInit ==
    /\ variant \in Variants
    /\ \E n \in 1..MaxCap : rmsgs = NewReceivedMessages(n)
    /\ InitIdle

QFrame == UNCHANGED <<variant, rb, wire, recv, rows, conn, reply, query, hr, hc>>

QWrite ==
    /\ panicked = ""
    /\ \E m \in QMsgs :
        LET w == Write(rmsgs, m[1], m[2])
            ok == w.err = "nil" /\ w.panic = ""
        IN  /\ rmsgs' = w.r
            /\ panicked' = w.panic
            /\ hq' = [hq EXCEPT !.op = "Write", !.sc = HqInit.sc, !.ok = ok, !.phase = 0,
                                !.unread = IF ok /\ hq.pure THEN Append(@, m) ELSE @,
                                !.wpWrapped = @ \/ (ok /\ hq.pure /\ w.r.wp = 0)]
    /\ QFrame

QRead ==
    /\ panicked = ""
    /\ LET rd == Read(rmsgs)
           ok == rd.err = "nil" /\ rd.panic = ""
       IN  /\ rmsgs' = rd.r
           /\ panicked' = rd.panic
           /\ hq' = [hq EXCEPT
                        !.op = "Read", !.sc = HqInit.sc, !.ok = ok,
                        !.ret = <<rd.msg, rd.body>>,
                        !.expect = IF hq.unread # <<>> THEN Head(hq.unread) ELSE NoPair,
                        !.unread = IF ok /\ hq.unread # <<>> THEN Tail(@) ELSE @,
                        !.rpWrapped = @ \/ (ok /\ hq.pure /\ rd.r.rp = 0),
                        !.phase = IF ~ok THEN 0 ELSE IF hq.phase = 2 THEN 3 ELSE 1,
                        !.snap = IF ok /\ hq.phase # 2
                                 THEN [rp |-> rmsgs.rp, readable |-> rmsgs.readable,
                                       ret |-> <<rd.msg, rd.body>>]
                                 ELSE @]
    /\ QFrame

QBackward ==
    /\ panicked = ""
    /\ rmsgs' = Backward(rmsgs)
    /\ hq' = [hq EXCEPT !.op = "Backward", !.sc = HqInit.sc, !.ok = TRUE, !.pure = FALSE, !.unread = <<>>,
                        !.phase = IF hq.phase \in {1, 3} THEN 2 ELSE 0]
    /\ UNCHANGED panicked
    /\ QFrame

QForward ==
    /\ panicked = ""
    /\ rmsgs.readable < MaxReadable
    /\ rmsgs' = Forward(variant, rmsgs)
    /\ hq' = [hq EXCEPT !.op = "Forward", !.sc = HqInit.sc, !.ok = TRUE, !.pure = FALSE, !.unread = <<>>,
                        !.phase = 0]
    /\ UNCHANGED panicked
    /\ QFrame

QSetCapacityTo(n) ==
    /\ panicked = ""
    /\ LET sc == SetCapacity(rmsgs, n)
       IN  /\ rmsgs' = sc.r
           /\ panicked' = sc.panic
           /\ hq' = [hq EXCEPT !.op = "SetCapacity", !.ok = sc.panic = "", !.pure = FALSE,
                               !.unread = <<>>, !.phase = 0,
                               !.sc = LET sane == rmsgs.readable \in 0..RLen(rmsgs)
                                      IN  [n |-> n, len |-> RLen(rmsgs), sane |-> sane,
                                           kept |-> IF sane
                                                    THEN Newest(ReadableList(rmsgs),
                                                                Min(rmsgs.readable, n))
                                                    ELSE <<>>]]
    /\ QFrame

QSetCapacity == \E n \in 0..(MaxCap + 1) : QSetCapacityTo(n)

QueueNext == QWrite \/ QRead \/ QBackward \/ QForward \/ QSetCapacity

QueueSpec == QueueInit /\ [][QueueNext]_vars

-----------------------------------------------------------------------------
(* The queue with Kth, and with SetCapacity called with capacities of at least 1 *)

QKth ==
    /\ panicked = ""
    /\ \E k \in 0..(MaxCap + 1) :
        LET kth == Kth(rmsgs, k)
        IN  /\ rmsgs' = kth.r
            /\ panicked' = kth.panic
            /\ hq' = [hq EXCEPT !.op = "Kth", !.sc = HqInit.sc, !.ok = kth.panic = "",
                                !.ret = <<kth.msg, kth.body>>, !.phase = 0]
    /\ QFrame

QSetCapacityPos == \E n \in 1..(MaxCap + 1) : QSetCapacityTo(n)

BoundsNext == QWrite \/ QRead \/ QBackward \/ QForward \/ QKth \/ QSetCapacityPos

BoundsSpec == QueueInit /\ [][BoundsNext]_vars

-----------------------------------------------------------------------------
(* The replies of the server.  DataRow k carries the one column value k.  The    *)
(* whole reply is on the wire from the start; the socket hands it over in        *)
(* pieces of any size, which covers every timing of the server.                  *)

DataRow(k) == Msg(TagD, <<1, k>>)

DataRows(from, to) == [i \in 1..(to - from + 1) |-> DataRow(from + i - 1)]

CommandComplete(n) == Msg(TagC, <<n>>)

BindComplete == Msg(Tag2, <<>>)

\* a message whose body does not fit the ring buffer
LongNotice == Msg(TagN, [i \in 1..(RbCap + 1) |-> 1])

\* the reply to a prepared query that yields n rows
PreparedReply(n) == <<BindComplete>> \o DataRows(1, n) \o <<CommandComplete(n)>>

\* the same with a notice sent after the first row
NoticeReply(n) ==
    <<BindComplete, DataRow(1), LongNotice>> \o DataRows(2, n) \o <<CommandComplete(n)>>

Replies == {PreparedReply(n) : n \in 0..MaxRows} \cup {NoticeReply(2)}

\* the DataRows of a reply up to its first CommandComplete
RECURSIVE Emitted(_)
Emitted(ms) ==
    IF ms = <<>> \/ Head(ms).tag = TagC THEN <<>>
    ELSE IF Head(ms).tag = TagD THEN <<DataRowValues(Head(ms).body)>> \o Emitted(Tail(ms))
    ELSE Emitted(Tail(ms))

\* what ReadFrom can return besides nil
ReadErrors == {"timeout", "io error"}

\* One ReadFrom of a running Receive: the socket hands over k bytes, as many as
\* the ring buffer has room for at most, or fails; then Receive runs on to its
\* next ReadFrom or returns, and BatchNext, if it called, runs on from there.
SocketReadOf(k, e) ==
    /\ panicked = ""
    /\ recv.pc # "idle"
    /\ \E s1 \in {ReceiveIO(Cur, k, e)} :
       \E s2 \in {IF s1.recv.pc = "idle" /\ s1.recv.caller = "batchRead" /\ s1.panicked = ""
                   THEN AfterBatchRead(s1, s1.hr.ret)
                   ELSE s1} :
       \E s3 \in {IF s2.query.row = "running" THEN RowScanAfterNext(s2) ELSE s2} :
          Install(s3)
    /\ UNCHANGED <<variant, reply, hq>>

SocketRead ==
    \E k \in 0..Min(RbCap - Len(rb), Len(wire)), e \in {"nil"} \cup ReadErrors :
        SocketReadOf(k, e)

-----------------------------------------------------------------------------
(* Receive on its own: a caller that calls Receive and reads messages from rmsgs *)

RecvInit ==
    /\ variant \in Variants
    /\ \E n \in 1..MaxCap : rmsgs = NewReceivedMessages(n)
    /\ reply \in Replies
    /\ wire = EncodeAll(reply)
    /\ rb = <<>>
    /\ recv = RecvIdle
    /\ rows = NewRows(1, <<>>)
    /\ conn = ConnBusy
    /\ panicked = ""
    /\ query = QueryDone
    /\ hq = HqInit
    /\ hr = HrInit
    /\ hc = HcInit

ReceiveCall ==
    /\ panicked = ""
    /\ recv.pc = "idle"
    /\ Install(ReceiveEnter(Cur, "direct"))
    /\ UNCHANGED <<variant, reply, hq>>

Consume ==
    /\ panicked = ""
    /\ recv.pc = "idle"
    /\ Readable(rmsgs) > 0
    /\ rmsgs' = Read(rmsgs).r
    /\ UNCHANGED <<variant, rb, wire, recv, rows, conn, panicked, reply, query, hq, hr, hc>>

RecvNext == ReceiveCall \/ SocketRead \/ Consume

RecvSpec == RecvInit /\ [][RecvNext]_vars

-----------------------------------------------------------------------------
(* Receive over a non-blocking reader and a server that delivers its reply *)

\* the answers to n Binds sent ahead of a Flush
BindReply(n) == [i \in 1..n |-> BindComplete]

\* a notice whose body does not fit the ring buffer, ahead of the end of a command
LongNoticeReply == <<LongNotice, CommandComplete(0)>>

LiveReplies ==
    {PreparedReply(n) : n \in 0..1} \cup {LongNoticeReply}
        \cup {BindReply(n) : n \in 2..(MaxCap + 1)}

LiveInit ==
    /\ variant = "frontend"
    /\ \E n \in 1..MaxCap : rmsgs = NewReceivedMessages(n)
    /\ reply \in LiveReplies
    /\ wire = EncodeAll(reply)
    /\ rb = <<>>
    /\ recv = RecvIdle
    /\ rows = NewRows(1, <<>>)
    /\ conn = ConnBusy
    /\ panicked = ""
    /\ query = QueryDone
    /\ hq = HqInit
    /\ hr = HrInit
    /\ hc = HcInit

\* ReadFrom on a non-blocking reader: it returns at once, with the bytes that have
\* arrived, or with zero bytes, and no error.
PromptRead == \E k \in 0..Min(RbCap - Len(rb), Len(wire)) : SocketReadOf(k, "nil")

\* a ReadFrom that finds at least one byte of the reply arrived
Deliver == \E k \in 1..Min(RbCap - Len(rb), Len(wire)) : SocketReadOf(k, "nil")

LiveNext == ReceiveCall \/ PromptRead \/ Consume

\* A running Receive keeps calling ReadFrom, which returns promptly, and the
\* server's bytes reach one of these calls sooner or later.
LiveSpec == LiveInit /\ [][LiveNext]_vars /\ WF_vars(PromptRead) /\ WF_vars(Deliver)

-----------------------------------------------------------------------------
(* The cursor: a query was sent on the prepared-statement path, the cursor has   *)
(* one field, and its user calls BatchNext, Scan, Values and Close in any order. *)

Dests == {<<>>, <<"ok">>, <<"nil">>, <<"bad">>, <<"ok", "ok">>}

Init ==
    /\ variant = "frontend"
    /\ \E n \in 1..MaxCap : rmsgs = NewReceivedMessages(n)
    /\ reply \in Replies
    /\ wire = EncodeAll(reply)
    /\ rb = <<>>
    /\ recv = RecvIdle
    /\ \E b \in 1..MaxB : rows = NewRows(b, <<Field(23)>>)
    /\ conn = ConnBusy
    /\ panicked = ""
    /\ query = QueryDone
    /\ hq = HqInit
    /\ hr = HrInit
    /\ hc = HcInit

BatchNext ==
    /\ panicked = ""
    /\ recv.pc = "idle"
    /\ query.state = "returned"
    /\ Install(IF query.rows = "nil" THEN NilRows(Cur) ELSE BatchNextCall(Cur))
    /\ UNCHANGED <<variant, reply, hq>>

ScanRow ==
    /\ panicked = ""
    /\ recv.pc = "idle"
    /\ query.state = "returned"
    /\ \E dest \in Dests :
        Install(IF query.rows = "nil" THEN NilRows(Cur) ELSE ScanCall(Cur, dest))
    /\ UNCHANGED <<variant, reply, hq>>

ValuesRow ==
    /\ panicked = ""
    /\ recv.pc = "idle"
    /\ query.state = "returned"
    /\ rows.rowIdx <= MaxB     \* Values on a cursor without fields counts rowIdx up for ever
    /\ \E bad \in 0..1 :
        Install(IF query.rows = "nil" THEN NilRows(Cur) ELSE ValuesCall(Cur, bad))
    /\ UNCHANGED <<variant, reply, hq>>

Close ==
    /\ panicked = ""
    /\ recv.pc = "idle"
    /\ query.state = "returned"
    /\ Install(IF query.rows = "nil" THEN NilRows(Cur) ELSE CloseCall(Cur))
    /\ UNCHANGED <<variant, reply, hq>>

Next == BatchNext \/ SocketRead \/ ScanRow \/ ValuesRow \/ Close

Spec == Init /\ [][Next]_vars

-----------------------------------------------------------------------------
(* A connection from before the query: QueryEx on any of its paths, with any of  *)
(* its calls failing, then the cursor it returned; the server's answers include  *)
(* a row that does not match the row description and a message of unknown type.  *)

TagX == 120     \* 'x': no backend message has this tag

RowDescription(oids) == Msg(TagT, <<Len(oids)>> \o oids)

\* the answer to a simple-protocol query that yields one row
SimpleReply == <<RowDescription(<<23>>), DataRow(1), CommandComplete(1)>>

\* the second DataRow carries two values for the one field
MismatchReply == <<BindComplete, DataRow(1), Msg(TagD, <<2, 2, 2>>), CommandComplete(2)>>

\* a message of unknown type after the first DataRow
UnknownTagReply == <<BindComplete, DataRow(1), Msg(TagX, <<>>), CommandComplete(1)>>

QueryReplies == {SimpleReply, MismatchReply, UnknownTagReply}

\* the options and argument counts of the queries: the simple protocol for the
\* simple reply; otherwise a prepared statement, or ParameterOIDs with one
\* argument per OID, with an argument too many, with more OIDs than the protocol
\* allows, or with more ResultFormatCodes than the statement has columns
QueryOptions(r) ==
    IF r = SimpleReply THEN {[NoOptions EXCEPT !.SimpleProtocol = TRUE]}
    ELSE {[NoOptions EXCEPT !.args = 1],
          [NoOptions EXCEPT !.args = 1, !.ParameterOIDs = 1],
          [NoOptions EXCEPT !.args = 2, !.ParameterOIDs = 1],
          [NoOptions EXCEPT !.args = MaxParameterOIDs + 1,
                            !.ParameterOIDs = MaxParameterOIDs + 1],
          [NoOptions EXCEPT !.args = 1, !.ParameterOIDs = 1,
                            !.ResultFormatCodes = <<TextFormatCode, BinaryFormatCode>>]}

QueryInit ==
    /\ variant = "frontend"
    /\ \E n \in 1..MaxCap : rmsgs = NewReceivedMessages(n)
    /\ reply \in QueryReplies
    /\ wire = <<>>
    /\ rb = <<>>
    /\ recv = RecvIdle
    /\ rows = ZeroRows
    /\ conn = ConnIdle
    /\ panicked = ""
    /\ query = QueryNone
    /\ hq = HqInit
    /\ hr = HrInit
    /\ hc = HcInit

\* The one query of the connection, directly or through the pool.
QueryExCall ==
    /\ panicked = ""
    /\ query.state = "none"
    /\ \E b \in {MaxB}, pool \in BOOLEAN, opt \in QueryOptions(reply) :
        \E fail \in FailPoints(Path(opt)) :
            Install(ConnPoolQuery(
                QueryEx(Cur, b, opt, fail,
                        IF Path(opt) = "simple" THEN <<>> ELSE <<Field(23)>>,
                        EncodeAll(reply)),
                pool))
    /\ UNCHANGED <<variant, reply, hq>>

QueryNext == QueryExCall \/ BatchNext \/ SocketRead \/ ScanRow \/ ValuesRow \/ Close

QuerySpec == QueryInit /\ [][QueryNext]_vars

-----------------------------------------------------------------------------
(* A second query on a busy connection: while the cursor of Spec is in use, its  *)
(* user calls QueryEx again on the same connection and closes what it returns.   *)

BusyInit == Init /\ reply = PreparedReply(1)

SecondQuery ==
    /\ panicked = ""
    /\ recv.pc = "idle"
    /\ conn.status = "busy"
    /\ query.second.state = "none"
    /\ \E b \in 1..MaxB, opt \in QueryOptions(reply) :
        \E fail \in FailPoints(Path(opt)) \ {"lock"} :
            Install(SecondQueryEx(Cur, b, opt, fail, <<Field(23)>>, EncodeAll(reply)))
    /\ UNCHANGED <<variant, reply, hq>>

SecondClose ==
    /\ panicked = ""
    /\ recv.pc = "idle"
    /\ query.second.state = "returned"
    /\ query.second.rows = "rows"
    /\ query.second.closes = 0
    /\ Install(SecondRowsClose(Cur))
    /\ UNCHANGED <<variant, reply, hq>>

BusyNext == SecondQuery \/ SecondClose \/ BatchNext \/ SocketRead \/ ScanRow \/ Close

BusySpec == BusyInit /\ [][BusyNext]_vars

-----------------------------------------------------------------------------
(* QueryRow(...).Scan(...): one query through QueryRow or QueryRowEx on any path *)
(* and with any failure, then Scan on the Row it returned; the replies have no   *)
(* row, one row, two rows, and a second row that does not match.                 *)

RowReplies == {PreparedReply(0), PreparedReply(2), SimpleReply, MismatchReply}

RowInit ==
    /\ variant = "frontend"
    /\ \E n \in 1..MaxCap : rmsgs = NewReceivedMessages(n)
    /\ reply \in RowReplies
    /\ wire = <<>>
    /\ rb = <<>>
    /\ recv = RecvIdle
    /\ rows = ZeroRows
    /\ conn = ConnIdle
    /\ panicked = ""
    /\ query = QueryNone
    /\ hq = HqInit
    /\ hr = HrInit
    /\ hc = HcInit

QueryRowCall ==
    /\ panicked = ""
    /\ query.state = "none"
    /\ \/ /\ reply # SimpleReply
          /\ \E fail \in FailPoints("prepared") :
                Install(QueryRow(Cur, fail, <<Field(23)>>, EncodeAll(reply)))
       \/ \E opt \in QueryOptions(reply) :
            \E fail \in FailPoints(Path(opt)) :
                Install(QueryRowEx(Cur, opt, fail,
                                   IF Path(opt) = "simple" THEN <<>> ELSE <<Field(23)>>,
                                   EncodeAll(reply)))
    /\ UNCHANGED <<variant, reply, hq>>

RowScan ==
    /\ panicked = ""
    /\ recv.pc = "idle"
    /\ query.state = "returned"
    /\ query.row = "none"
    /\ \E dest \in Dests : Install(RowScanCall(Cur, dest))
    /\ UNCHANGED <<variant, reply, hq>>

RowNext == QueryRowCall \/ RowScan \/ SocketRead

RowSpec == RowInit /\ [][RowNext]_vars

-----------------------------------------------------------------------------
(* The result format codes: a query with ParameterOIDs whose statement has 0 to  *)
(* MaxCols columns, with every ResultFormatCodes of up to MaxCodes codes.        *)

FormatCodes == {TextFormatCode, BinaryFormatCode}

\* the sequences over S of length up to n
SeqsUpTo(S, n) == UNION {[1..k -> S] : k \in 0..n}

FormatInit ==
    /\ variant = "frontend"
    /\ rmsgs = NewReceivedMessages(MaxB)
    /\ \E n \in 0..MaxCols : reply = <<RowDescription([i \in 1..n |-> 23])>>
    /\ wire = <<>>
    /\ rb = <<>>
    /\ recv = RecvIdle
    /\ rows = ZeroRows
    /\ conn = ConnIdle
    /\ panicked = ""
    /\ \E codes \in SeqsUpTo(FormatCodes, MaxCodes) :
          query = [QueryNone EXCEPT !.opt = [NoOptions EXCEPT !.args = 1,
                                                              !.ParameterOIDs = 1,
                                                              !.ResultFormatCodes = codes]]
    /\ hq = HqInit
    /\ hr = HrInit
    /\ hc = HcInit

\* QueryEx with the options of the query; the RowDescription of the statement is
\* what readUntilRowDescription returns.
FormatQuery ==
    /\ panicked = ""
    /\ query.state = "none"
    /\ Install(QueryEx(Cur, MaxB, query.opt, "none", RxRowDescription(reply[1].body), <<>>))
    /\ UNCHANGED <<variant, reply, hq>>

FormatNext == FormatQuery

FormatSpec == FormatInit /\ [][FormatNext]_vars

-----------------------------------------------------------------------------
(* Claims about the queue, checked under QueueSpec *)

\* C1: as long as only Write and Read have been called, the number of readable
\* messages is the number of stored pairs not yet returned, and every successful
\* Read returns the oldest of them: the k-th successful Read returns the pair of
\* the k-th successful Write.
C1_ReadReturnsWritesInOrder ==
    hq.pure =>
        /\ Len(hq.unread) = Readable(rmsgs)
        /\ (hq.op = "Read" /\ hq.ok => hq.ret = hq.expect)

\* A successful Read of a message written after wp wrapped, by an rp that wrapped too.
C1_Witness ==
    /\ hq.pure /\ hq.op = "Read" /\ hq.ok
    /\ hq.wpWrapped /\ hq.rpWrapped
    /\ RLen(rmsgs) = 2 /\ rmsgs.rp = 1
    /\ hq.ret = <<TagC, <<>>>>

\* C2: in frontend.go, Backward right after a successful Read puts rp and readable
\* back to what they were before the Read, and the Read after it returns the
\* same pair again.
C2_BackwardUndoesRead ==
    variant = "frontend" =>
        /\ (hq.phase = 2 => rmsgs.rp = hq.snap.rp /\ rmsgs.readable = hq.snap.readable)
        /\ (hq.phase = 3 => hq.ok /\ hq.ret = hq.snap.ret)

\* Read, Backward, Read on a queue that was full, with rp = 0, before the first Read.
C2_Witness ==
    /\ variant = "frontend"
    /\ hq.phase = 3
    /\ hq.snap.rp = 0
    /\ hq.snap.readable = RLen(rmsgs)
    /\ hq.ret = <<TagD, <<1>>>>

\* C3: 0 <= Readable() <= Len() and WriteCapacity() = Len() - Readable() >= 0 after
\* any sequence of calls, in every variant of ReceivedMessages.
C3_ReadableWithinLen ==
    /\ 0 <= Readable(rmsgs)
    /\ Readable(rmsgs) <= RLen(rmsgs)
    /\ WriteCapacity(rmsgs) = RLen(rmsgs) - Readable(rmsgs)
    /\ WriteCapacity(rmsgs) >= 0

-----------------------------------------------------------------------------
(* Claims about Receive, checked under RecvSpec *)

\* C4: whenever Receive returns a nil error, the queue it was given holds at
\* least one readable message at that moment, whatever it held on entry.
C4_NilReturnHasMessage ==
    hr.ret = "nil" => hr.retReadable >= 1

\* Receive entered with an empty queue, read a header in two pieces and returned nil.
C4_Witness ==
    /\ hr.ret = "nil"
    /\ hr.entryReadable = 0
    /\ hr.splitHeader
    /\ hr.retReadable >= 1

\* C5: in frontend.go, as long as no Receive has failed, the messages written to
\* RMsgs are, in order and once each, the messages the server sent, each under
\* its tag with exactly the body bytes sent (length field - 4 of them), however
\* the socket cut headers and bodies into pieces.
C5_FramedAsSent ==
    (variant = "frontend" /\ ~hr.failed) =>
        /\ Len(hr.framed) <= Len(reply)
        /\ \A i \in 1..Len(hr.framed) : hr.framed[i] = reply[i]

\* The whole reply with the notice longer than the ring buffer was framed, a
\* header having arrived in two pieces and the ring buffer having been filled up.
C5_Witness ==
    /\ variant = "frontend" /\ ~hr.failed
    /\ reply = NoticeReply(2)
    /\ hr.framed = reply
    /\ hr.splitHeader
    /\ hr.refill

-----------------------------------------------------------------------------
(* Claims about the cursor, checked under Spec.  hc.ok holds as long as the     *)
(* user has called BatchNext only with every buffered row scanned, every Scan   *)
(* has returned nil, and Values and Close have not been called on the open      *)
(* cursor; hc.scanned lists the rows those Scans read and hc.rets what the      *)
(* BatchNext calls on the open cursor returned.                                 *)

IsPrefix(a, b) == Len(a) <= Len(b) /\ \A i \in 1..Len(a) : a[i] = b[i]

RECURSIVE SumSeq(_)
SumSeq(q) == IF q = <<>> THEN 0 ELSE Head(q) + SumSeq(Tail(q))

\* the rows buffered and not yet scanned
Buffered == SubSeq(rows.values, rows.rowIdx + 1, rows.pendingRowCount)

\* C6: when the user scans every buffered row before calling BatchNext again,
\* the rows scanned so far followed by the rows still buffered are the first
\* DataRows the server emitted, in order, and when BatchNext has closed the
\* cursor on CommandComplete the scanned rows are all of them.
C6_RowsInOrder ==
    (hc.ok /\ rows.err = "nil") =>
        /\ IsPrefix(hc.scanned \o Buffered, Emitted(reply))
        /\ (rows.closed => hc.scanned = Emitted(reply))

\* MaxRows rows went through a row buffer of 2 and the cursor was closed by
\* CommandComplete, a header having arrived in two pieces.
C6_Witness ==
    /\ hc.ok /\ rows.err = "nil" /\ rows.closed
    /\ Len(hc.scanned) = MaxRows
    /\ Len(rows.values) = 2
    /\ hr.splitHeader

\* b, .., b, then r mod b if it is not zero, then 0
ExpectedRets(b, r) ==
    [i \in 1..((r \div b) + (IF r % b = 0 THEN 1 ELSE 2)) |->
        IF i <= r \div b THEN b ELSE IF i = (r \div b) + 1 /\ r % b # 0 THEN r % b ELSE 0]

\* C7 as stated: the successive BatchNext calls return B while at least B rows
\* remain, then R mod B if it is not zero, then 0, however the reply arrives.
C7_FullBatches ==
    (hc.ok /\ rows.err = "nil") =>
        IsPrefix(hc.rets, ExpectedRets(Len(rows.values), Len(Emitted(reply))))

\* C7 as amended: each BatchNext call returns between 1 and B rows until all R
\* rows have been returned, the returned counts add up to the rows handed to the
\* user, and the call that finds CommandComplete returns 0 with Err() = nil
\* after exactly R rows.
C7_BatchesBounded ==
    (hc.ok /\ rows.err = "nil" /\ recv.pc = "idle") =>
        /\ \A i \in 1..Len(hc.rets) :
            /\ hc.rets[i] \in 0..Len(rows.values)
            /\ (hc.rets[i] = 0 => i = Len(hc.rets) /\ rows.closed)
        /\ SumSeq(hc.rets) = Len(hc.scanned) + rows.pendingRowCount - rows.rowIdx
        /\ (rows.closed =>
                /\ hc.rets # <<>>
                /\ hc.rets[Len(hc.rets)] = 0
                /\ SumSeq(hc.rets) = Len(Emitted(reply)))

\* Three rows through a row buffer of 2, returned as 1, 2, 0.
C7_Witness ==
    /\ hc.ok /\ rows.err = "nil" /\ rows.closed
    /\ Len(rows.values) = 2
    /\ hc.rets = <<1, 2, 0>>

\* C8: pendingRowCount never exceeds len(values) and BatchNext never stores a
\* DataRow at an index that is not below len(values).
C8_BatchWithinBuffer ==
    /\ rows.pendingRowCount <= Len(rows.values)
    /\ panicked # "BatchNext: values index out of range"

\* BatchNext returned a full batch of 2 while a third row was still to come.
C8_Witness ==
    /\ hc.last = [op |-> "BatchNext", ret |-> "returned", n |-> 2]
    /\ rows.pendingRowCount = Len(rows.values)
    /\ rows.rowCount = 2
    /\ reply = PreparedReply(3)

\* C9: 0 <= rowIdx <= pendingRowCount <= len(values) in every state of the cursor.
C9_RowIdxWithinPending ==
    /\ 0 <= rows.rowIdx
    /\ rows.rowIdx <= rows.pendingRowCount
    /\ rows.pendingRowCount <= Len(rows.values)

\* C10: a Scan that returned nil has advanced rowIdx by exactly one and left
\* pendingRowCount alone; a Scan that returned an error has left rowIdx alone.
C10_ScanAdvancesByOne ==
    (hc.last.op = "Scan" /\ hc.last.ret # "panic") =>
        IF hc.last.ret = "nil"
        THEN /\ rows.rowIdx = hc.call.rowIdx + 1
             /\ rows.pendingRowCount = hc.call.pendingRowCount
        ELSE rows.rowIdx = hc.call.rowIdx

\* The second row of a batch was scanned.
C10_Witness ==
    /\ hc.last = [op |-> "Scan", ret |-> "nil", n |-> 0]
    /\ hc.call.rowIdx = 1
    /\ rows.rowIdx = 2
    /\ hc.ok

\* the rowCount of the last "Query" log event, -1 if it carries none
LoggedRowCount ==
    IF conn.log = <<>> THEN -1 ELSE conn.log[Len(conn.log)].rowCount

\* C12: when BatchNext reads CommandComplete with no DataRow buffered in the
\* batch, it closes the cursor and returns 0, and Err() is nil.
C12_CommandCompleteCloses ==
    (hc.via = "CommandComplete" /\ hc.last.op = "BatchNext") =>
        /\ hc.last = [op |-> "BatchNext", ret |-> "returned", n |-> 0]
        /\ rows.closed
        /\ rows.err = "nil"
        /\ rows.pendingRowCount = 0

\* The first BatchNext of a result with no rows found CommandComplete.
C12_Witness ==
    /\ hc.via = "CommandComplete"
    /\ hc.last = [op |-> "BatchNext", ret |-> "returned", n |-> 0]
    /\ reply = PreparedReply(0)
    /\ rows.closed /\ rows.err = "nil"
    /\ hc.rets = <<0>>

\* C13: when CommandComplete closes the cursor without error, the rowCount of
\* the Close log event is the number of DataRows the server sent.
C13_LoggedRowCount ==
    (hc.via = "CommandComplete" /\ rows.closed /\ rows.err = "nil") =>
        LoggedRowCount = Len(Emitted(reply))

\* C15: once an error is latched, Err() keeps returning it, and every later
\* Scan, Values and BatchNext fails (Scan and Values with an error, BatchNext
\* with 0) and leaves rowIdx and pendingRowCount alone.
C15_ErrorLatched ==
    [][(rows.err # "nil" /\ panicked = "") =>
          /\ rows'.err = rows.err
          /\ rows'.rowIdx = rows.rowIdx
          /\ rows'.pendingRowCount = rows.pendingRowCount
          /\ panicked' = ""
          /\ hc'.last.op \in {"Scan", "Values"} => hc'.last.ret \notin {"nil", "panic"}
          /\ hc'.last.op = "BatchNext" =>
                hc'.last = [op |-> "BatchNext", ret |-> "returned", n |-> 0]]_vars

\* C16 as stated: a Scan with the wrong number of destinations returns the
\* argument-count error, that error is Err(), the cursor is closed, rowIdx has
\* not advanced and no column was decoded.
C16_WrongCountIsErr ==
    (hc.last.op = "Scan" /\ hc.last.ret = "Scan received wrong number of arguments") =>
        /\ rows.err = "Scan received wrong number of arguments"
        /\ rows.closed
        /\ rows.rowIdx = hc.call.rowIdx
        /\ rows.columnIdx = hc.call.columnIdx

\* C16 as amended: the same, with Err() being the argument-count error unless
\* an earlier error was latched, which Err() keeps.
C16_WrongCountLatched ==
    (hc.last.op = "Scan" /\ hc.last.ret = "Scan received wrong number of arguments") =>
        /\ rows.err = IF hc.call.err = "nil"
                      THEN "Scan received wrong number of arguments" ELSE hc.call.err
        /\ rows.closed
        /\ rows.rowIdx = hc.call.rowIdx
        /\ rows.pendingRowCount = hc.call.pendingRowCount
        /\ rows.columnIdx = hc.call.columnIdx

\* Scan with two destinations for one field, on an open cursor with a full
\* batch of 2 of which one row was scanned.
C16_Witness ==
    /\ hc.last = [op |-> "Scan", ret |-> "Scan received wrong number of arguments", n |-> 0]
    /\ ~hc.call.closed /\ hc.call.err = "nil"
    /\ hc.call.rowIdx = 1 /\ hc.call.pendingRowCount = 2
    /\ rows.closed
    /\ rows.err = "Scan received wrong number of arguments"

\* C19: after a SetCapacity(n) with n different from Len(), the following Reads
\* return the newest min(Readable(), n) of the messages that were readable
\* before it, oldest first.
C19_SetCapacityKeepsNewest ==
    (hq.op = "SetCapacity" /\ hq.ok /\ hq.sc.sane /\ hq.sc.n # hq.sc.len) =>
        DrainReads(rmsgs) = hq.sc.kept

\* C20: after SetCapacity(n), Len() is n and WriteCapacity() is n - Readable().
C20_SetCapacitySetsLen ==
    (hq.op = "SetCapacity" /\ hq.ok) =>
        /\ RLen(rmsgs) = hq.sc.n
        /\ WriteCapacity(rmsgs) = hq.sc.n - Readable(rmsgs)

-----------------------------------------------------------------------------
(* Claims about QueryEx and the error paths of the cursor, checked under QuerySpec *)

\* C11: Close on a closed cursor changes neither the cursor nor the connection
\* (no unlock, no log event, no release to the pool), and over the life of a
\* cursor the connection is unlocked, logged on and released at most once each.
C11_CloseOnce ==
    [][/\ conn'.unlocks <= 1 /\ conn'.releases <= 1 /\ Len(conn'.log) <= 1
       /\ (rows.closed /\ hc'.last.op = "Close") => (rows' = rows /\ conn' = conn)]_vars

\* Close was called on an already closed cursor of the pool that had read rows:
\* still one unlock, one log event, one release.
C11_Witness ==
    /\ hc.last.op = "Close" /\ hc.call.closed
    /\ rows.connPool
    /\ conn.unlocks = 1 /\ conn.releases = 1 /\ Len(conn.log) = 1
    /\ rows.rowCount > 0

\* C14: when QueryEx returns an error, the *Rows it returns is not nil, is
\* closed and holds an error.
C14_ErrorInRows ==
    (query.state = "returned" /\ query.err # "nil") =>
        /\ query.rows = "rows"
        /\ rows.closed
        /\ rows.err # "nil"

\* C17: a DataRow whose number of values differs from the number of fields
\* makes BatchNext return 0 without buffering the row, closes the cursor with
\* the ProtocolError and kills the connection.
C17_FieldCountMismatch ==
    (hc.via = "fieldCount" /\ hc.last.op = "BatchNext") =>
        /\ hc.last = [op |-> "BatchNext", ret |-> "returned", n |-> 0]
        /\ rows.closed
        /\ rows.err = "ProtocolError: field count"
        /\ \A i \in 1..rows.pendingRowCount : Len(rows.values[i]) = Len(rows.fields)
        /\ ~conn.alive

\* C18: when Receive fails during BatchNext, BatchNext returns 0 with the error
\* latched on the closed cursor, and the connection is dead exactly if the
\* error is not a timeout.
C18_ReceiveFailure ==
    (hc.via = "Receive" /\ hc.last.op = "BatchNext") =>
        /\ hc.last = [op |-> "BatchNext", ret |-> "returned", n |-> 0]
        /\ hr.ret \notin {"nil", "none"}
        /\ rows.err = hr.ret
        /\ rows.closed
        /\ conn.alive <=> (hr.ret = "timeout")

\* Receive met the message of unknown type during BatchNext: connection killed.
C18_Witness ==
    /\ hc.via = "Receive" /\ hc.last.op = "BatchNext"
    /\ reply = UnknownTagReply
    /\ hr.ret = "unknown message type"
    /\ rows.err = "unknown message type"
    /\ ~conn.alive

-----------------------------------------------------------------------------
(* Further claims about the queue (QueueSpec) and about Receive (RecvSpec) *)

\* C25: in every variant, Forward on a queue with readable messages moves rp on
\* by one, wrapping at Len(), and takes one off Readable(), so that the next
\* Read returns the message after the skipped one; on an empty queue it
\* changes nothing.
C25_ForwardSkipsOne ==
    [][(hq'.op = "Forward" /\ rmsgs.readable \in 0..RLen(rmsgs)) =>
          IF Readable(rmsgs) > 0
          THEN /\ rmsgs'.rp = (rmsgs.rp + 1) % RLen(rmsgs)
               /\ Readable(rmsgs') = Readable(rmsgs) - 1
               /\ DrainReads(rmsgs') = Tail(DrainReads(rmsgs))
          ELSE rmsgs' = rmsgs]_vars

\* C26: Write on a full queue and Read on an empty queue return an error and
\* leave rp, wp, readable and every slot as they were, and a successful Write
\* on a queue whose wp is rp + readable modulo Len() leaves every message that
\* is still to be read in place.
C26_FullAndEmptyRefused ==
    [][/\ (hq'.op = "Write" /\ WriteCapacity(rmsgs) = 0) =>
            (~hq'.ok /\ panicked' = "" /\ rmsgs' = rmsgs)
       /\ (hq'.op = "Read" /\ Readable(rmsgs) = 0) =>
            (~hq'.ok /\ panicked' = "" /\ rmsgs' = rmsgs)
       /\ (/\ hq'.op = "Write" /\ hq'.ok
           /\ rmsgs.readable \in 0..RLen(rmsgs)
           /\ rmsgs.wp = (rmsgs.rp + rmsgs.readable) % RLen(rmsgs)) =>
            SubSeq(ReadableList(rmsgs'), 1, rmsgs.readable) = ReadableList(rmsgs)]_vars

\* A Write was refused by a full queue of 2 whose wp had wrapped.
C26_Witness ==
    /\ hq.op = "Write" /\ ~hq.ok /\ hq.pure /\ hq.wpWrapped
    /\ RLen(rmsgs) = 2 /\ WriteCapacity(rmsgs) = 0
    /\ panicked = ""

\* C29: in every variant, a Receive that returns nil or a timeout drops no byte
\* of a message it had begun to read (hr.lost counts the bytes that returns of
\* Receive dropped with its locals).
C29_NoByteDropped ==
    [][(recv.pc # "idle" /\ recv'.pc = "idle" /\ hr'.ret \in {"nil", "timeout"}) =>
          hr'.lost = hr.lost]_vars

-----------------------------------------------------------------------------
(* Further claims about the cursor (Spec) *)

\* C27: right after BatchNext returned 0 the cursor is closed, it no longer holds
\* the connection lock, and the connection has been unlocked (once) and is idle.
C27_ZeroMeansClosed ==
    (hc.last = [op |-> "BatchNext", ret |-> "returned", n |-> 0]) =>
        /\ rows.closed
        /\ ~rows.unlockConn
        /\ conn.status = "idle"
        /\ conn.unlocks = 1

\* C27 witness: BatchNext on an open cursor returned 0 at the CommandComplete,
\* after every row of the reply was scanned.
C27_Witness ==
    /\ hc.last = [op |-> "BatchNext", ret |-> "returned", n |-> 0]
    /\ ~hc.call.closed
    /\ hc.via = "CommandComplete"
    /\ Len(hc.scanned) = MaxRows
    /\ conn.unlocks = 1

\* C30: a BatchNext called on an open cursor with rowIdx < pendingRowCount reads
\* no message from RMsgs, does not call Receive, leaves the cursor as it is and
\* returns pendingRowCount - rowIdx, which is positive.
C30_UnscannedShortcut ==
    [][(/\ recv.pc = "idle"
        /\ hc'.last.op = "BatchNext"
        /\ hc'.call.op = "BatchNext"
        /\ hc' # hc
        /\ ~rows.closed
        /\ rows.rowIdx < rows.pendingRowCount) =>
          /\ rmsgs' = rmsgs
          /\ recv' = recv
          /\ rb' = rb
          /\ wire' = wire
          /\ rows' = rows
          /\ conn' = conn
          /\ hc'.last = [op |-> "BatchNext", ret |-> "returned",
                         n |-> rows.pendingRowCount - rows.rowIdx]
          /\ hc'.last.n > 0]_vars

\* C30 witness: after one row of a batch of two was scanned, BatchNext was called
\* twice in a row and returned 1 with the cursor unmoved.
C30_Witness ==
    /\ hc.last = [op |-> "BatchNext", ret |-> "returned", n |-> 1]
    /\ ~hc.call.closed
    /\ hc.call.rowIdx = 1
    /\ hc.call.pendingRowCount = 2
    /\ rows.rowIdx = 1
    /\ rows.pendingRowCount = 2
    /\ Readable(rmsgs) > 0

-----------------------------------------------------------------------------
(* Further claims about QueryEx (FormatSpec, QuerySpec) *)

\* C23: for every number of result columns and every ResultFormatCodes, QueryEx
\* with ParameterOIDs returns a cursor whose fields all have the Text code when
\* ResultFormatCodes is empty, all have the one code when it has length 1, and
\* have the i-th code in field i when it is longer.
C23_FormatCodes ==
    (query.state = "returned" \/ panicked # "") =>
        LET codes == query.opt.ResultFormatCodes
            n == reply[1].body[1]
        IN  /\ panicked = ""
            /\ query.rows = "rows" /\ query.err = "nil"
            /\ Len(rows.fields) = n
            /\ \A i \in 1..n :
                  IF Len(codes) = 0 THEN rows.fields[i].FormatCode = TextFormatCode
                  ELSE IF Len(codes) = 1 THEN rows.fields[i].FormatCode = codes[1]
                  ELSE i <= Len(codes) => rows.fields[i].FormatCode = codes[i]

\* the build errors of buildOneRoundTripQueryEx for the argument counts
BuildErrors == {"mismatched number of arguments", "too many ParameterOIDs"}

\* C24: a QueryEx with ParameterOIDs that got as far as building the query with
\* a number of arguments different from the number of ParameterOIDs, or with
\* more than 65535 ParameterOIDs, returns that error and a cursor closed with
\* it; the connection is unlocked, nothing was written to the socket and
\* pendingReadyForQueryCount is unchanged.
C24_BuildErrorBeforeWrite ==
    (/\ query.state = "returned"
     /\ query.opt.ParameterOIDs > 0 /\ ~query.opt.SimpleProtocol
     /\ (query.opt.args # query.opt.ParameterOIDs \/ query.opt.ParameterOIDs > 65535)
     /\ query.err \notin {"waitForPreviousCancelQuery", "ensureConnectionReadyForQuery",
                          "lock", "initContext"}) =>
        /\ query.err \in BuildErrors
        /\ query.rows = "rows"
        /\ rows.closed
        /\ rows.err = query.err
        /\ ~rows.unlockConn
        /\ conn.unlocks = 1 /\ conn.status = "idle"
        /\ conn.written = 0 /\ ~conn.partial /\ wire = <<>>
        /\ conn.pendingReadyForQueryCount = 0

\* C24 witness: QueryEx with 65536 ParameterOIDs and as many arguments returned
\* the build error and the closed cursor.
C24_Witness ==
    /\ query.state = "returned"
    /\ query.opt.ParameterOIDs = 65536 /\ query.opt.args = 65536
    /\ query.err = "too many ParameterOIDs"
    /\ rows.closed /\ rows.err = "too many ParameterOIDs"
    /\ conn.unlocks = 1 /\ conn.written = 0

\* C28: after a QueryEx with ParameterOIDs, pendingReadyForQueryCount counts the
\* buffers written to the socket without error: it is not incremented when
\* conn.Write returned an error.
C28_CountOnlyAfterCleanWrite ==
    (query.state = "returned" /\ query.opt.ParameterOIDs > 0 /\ ~query.opt.SimpleProtocol) =>
        conn.pendingReadyForQueryCount = conn.written

\* C22: at most one cursor holds the connection lock; a QueryEx that reaches
\* c.lock() while another cursor is live returns the busy error and a cursor
\* closed with it that never held the lock, and neither that call nor a Close
\* of its cursor unlocks the connection: while the first cursor is open the
\* connection stays busy and was never unlocked.
C22_OneLockHolder ==
    /\ ~(rows.unlockConn /\ query.second.cursor.unlockConn)
    /\ (/\ query.second.state = "returned"
        /\ query.second.err \notin {"waitForPreviousCancelQuery",
                                     "ensureConnectionReadyForQuery"}) =>
          /\ query.second.err = "conn is busy"
          /\ query.second.rows = "rows"
          /\ query.second.cursor.closed
          /\ query.second.cursor.err = "conn is busy"
          /\ ~query.second.cursor.unlockConn
    /\ ~rows.closed => (conn.status = "busy" /\ conn.unlocks = 0 /\ rows.unlockConn)
    /\ conn.unlocks <= 1

\* C22 witness: the second QueryEx was rejected with the busy error and its
\* cursor closed again by the caller, while the first cursor, with a row
\* buffered, still holds the lock.
C22_Witness ==
    /\ query.second.state = "returned"
    /\ query.second.err = "conn is busy"
    /\ query.second.closes = 1
    /\ ~rows.closed /\ rows.unlockConn /\ rows.pendingRowCount > 0
    /\ conn.status = "busy" /\ conn.unlocks = 0

-----------------------------------------------------------------------------
(* Claims about the indices of the queue (BoundsSpec) *)

\* C31: no sequence of Read, Write, Backward, Forward, Kth(k >= 0) and
\* SetCapacity(n >= 1) calls on a queue created with a capacity of at least 1
\* makes an operation panic on an index or a slice, and rp and wp stay within
\* 0..Len()-1.
C31_IndicesInBounds ==
    /\ panicked = ""
    /\ rmsgs.rp \in 0..(RLen(rmsgs) - 1)
    /\ rmsgs.wp \in 0..(RLen(rmsgs) - 1)

-----------------------------------------------------------------------------
(* Claims about the rejected second query (BusySpec) *)

\* C32: a second QueryEx that returns the busy error leaves the connection's
\* received-message queue (rp, wp, readable, slots) and the live cursor, with
\* its buffered rows, as they were, whatever buffer size it asked for.
C32_RejectedQueryTouchesNothing ==
    [][(/\ query.second.state = "none"
        /\ query'.second.state = "returned"
        /\ query'.second.err = "conn is busy") =>
          /\ rmsgs' = rmsgs
          /\ rows' = rows]_vars

\* the ring buffer starts with a complete message
HoldsMessage(b) == Len(b) >= 5 /\ Len(b) >= 5 + BodyLen(SubSeq(b, 1, 5))

\* C33 as amended: a Receive that still has a byte of the reply to read, in the
\* ring buffer or on the socket, eventually returns; and a Receive entered on an
\* empty rmsgs while the ring buffer holds complete messages and the socket has
\* nothing more returns nil with a message written, on reads of zero bytes alone.
C33_ReceiveReturns ==
    /\ (recv.pc # "idle" /\ Len(rb) + Len(wire) > 0) ~> (recv.pc = "idle")
    /\ (recv.pc = "outer" /\ hr.entryReadable = 0 /\ HoldsMessage(rb) /\ wire = <<>>)
          ~> (recv.pc = "idle" /\ hr.ret = "nil" /\ Readable(rmsgs) > 0 /\ wire = <<>>)

\* C33 witness: an earlier Receive stopped at a full rmsgs, the caller read it
\* empty, and the next Receive is at its first ReadFrom with complete messages
\* in the ring buffer and nothing left on the socket.
C33_Witness ==
    /\ recv.pc = "outer"
    /\ hr.entryReadable = 0
    /\ Len(hr.framed) > 0
    /\ HoldsMessage(rb)
    /\ wire = <<>>

\* C33 as stated: the Receive that follows one stopped by a full rmsgs, called
\* with free capacity, writes the complete messages the ring buffer holds.
C33_NextReceiveWritesLeftovers ==
    [][(/\ recv.pc = "idle"
        /\ hr' # hr
        /\ WriteCapacity(rmsgs) > 0
        /\ HoldsMessage(rb)
        /\ recv'.pc = "idle") =>
          Len(hr'.framed) > Len(hr.framed)]_vars

====
